---------------------------- MODULE Spec2Model ----------------------------
(***************************************************************************)
(* Model of jupyter_notebook_config.py: the post-save hook that exports a  *)
(* saved notebook as a script under <config dir>/.nbexports.               *)
(*                                                                         *)
(* Paths and extensions are sequences of one-character strings, so that    *)
(* os.path.splitext, os.path.join, os.path.dirname, to_api_path and        *)
(* os.makedirs are modelled by what they do to the characters.  File       *)
(* contents are sequences of text tokens ("\n" is the newline token).      *)
(***************************************************************************)
EXTENDS Integers, Sequences, FiniteSets, TLC

VARIABLES
    dir_path,          \* directory of the configuration file (line 4)
    root_dir,          \* contents_manager.root_dir
    _script_exporter,  \* the cached exporter: None or an instance id (line 9)
    constructed,       \* number of ScriptExporter(...) constructions so far
    dirs,              \* the directories that exist
    files,             \* the regular files that exist: path -> content
    log,               \* the lines emitted through contents_manager.log.info
    written,           \* number of exports whose write completed
    opened,            \* number of calls that reached io.open
    exports,           \* per notebook, its most recent completed export
    calls,             \* number of hook invocations so far
    last               \* the most recent hook invocation: its inputs and outcome

vars == <<dir_path, root_dir, _script_exporter, constructed, dirs, files,
          log, written, opened, exports, calls, last>>

(***************************************************************************)
(* Bounds of the model.                                                    *)
(***************************************************************************)
MaxSaves == 2

(***************************************************************************)
(* The strings of the model, character by character.                       *)
(***************************************************************************)
PROJ == <<"/", "p", "r", "o", "j">>
CFG == <<"/", "c", "f", "g">>
NBEXPORTS == <<".", "n", "b", "e", "x", "p", "o", "r", "t", "s">>
PY == <<".", "p", "y">>
TXT == <<".", "t", "x", "t">>
DEMO == <<"d", "e", "m", "o", ".", "i", "p", "y", "n", "b">>
NOTEBOOK_AB == <<"a", "/", "b", "/", "N", "o", "t", "e", "b", "o", "o", "k", ".", "i", "p", "y", "n", "b">>
DEMO_PY == <<"d", "e", "m", "o", ".", "p", "y", ".", "i", "p", "y", "n", "b">>
HIDDEN == <<".", "i", "p", "y", "n", "b">>
N_IN_DEMO_PY == <<"d", "e", "m", "o", ".", "p", "y", "/", "n", ".", "i", "p", "y", "n", "b">>
A_DIR == <<"a">>
PRINT1 == <<"print(1)", "\n">>
TWO_LINES == <<"import os", "\n", "print(2)", "\n">>

(***************************************************************************)
(* Character-level string helpers (Python str methods).                    *)
(***************************************************************************)
SEP == "/"
DOT == "."

\* s[a:] for a 0-based start index a
From(s, a) == SubSeq(s, a + 1, Len(s))

\* s[:b] for a 0-based end index b
Upto(s, b) == SubSeq(s, 1, b)

\* s.rfind(c) + 1: the 1-based position of the last c in s, 0 when there is none
rfind1(s, c) ==
    LET hits == {i \in 1..Len(s) : s[i] = c}
    IN  IF hits = {} THEN 0 ELSE CHOOSE i \in hits : \A j \in hits : j <= i

\* s.startswith(p)
startswith(s, p) == Len(p) <= Len(s) /\ Upto(s, Len(p)) = p

\* s.endswith(p)
endswith(s, p) == Len(p) <= Len(s) /\ From(s, Len(s) - Len(p)) = p

\* s.rstrip(c)
RECURSIVE rstrip(_, _)
rstrip(s, c) ==
    IF s # <<>> /\ s[Len(s)] = c THEN rstrip(Upto(s, Len(s) - 1), c) ELSE s

\* s.lstrip(c)
RECURSIVE lstrip(_, _)
lstrip(s, c) ==
    IF s # <<>> /\ s[1] = c THEN lstrip(Tail(s), c) ELSE s

\* s.strip(c)
strip(s, c) == lstrip(rstrip(s, c), c)

\* s.split(c): the list of the pieces between the occurrences of c
RECURSIVE split(_, _)
split(s, c) ==
    LET hits == {i \in 1..Len(s) : s[i] = c}
    IN  IF hits = {} THEN <<s>>
        ELSE LET i == CHOOSE k \in hits : \A j \in hits : k <= j
             IN  <<Upto(s, i - 1)>> \o split(From(s, i), c)

\* c.join(parts)
RECURSIVE joinstr(_, _)
joinstr(c, parts) ==
    IF parts = <<>> THEN <<>>
    ELSE IF Len(parts) = 1 THEN parts[1]
    ELSE parts[1] \o <<c>> \o joinstr(c, Tail(parts))

\* the string made of s only of the character c ('/' * len(s) == s)
AllChar(s, c) == \A i \in 1..Len(s) : s[i] = c

(***************************************************************************)
(* os.path (posixpath) functions the hook calls.                           *)
(***************************************************************************)
\* os.path.splitext(p) == <<root, ext>>: the extension starts at the last dot of
\* the last component, unless only dots precede it in that component
splitext(p) ==
    LET sepIndex == rfind1(p, SEP)
        dotIndex == rfind1(p, DOT)
    IN  IF dotIndex > sepIndex
           /\ \E k \in (sepIndex + 1)..(dotIndex - 1) : p[k] # DOT
        THEN <<Upto(p, dotIndex - 1), From(p, dotIndex - 1)>>
        ELSE <<p, <<>>>>

\* os.path.join(a, b) of two parts
join2(a, b) ==
    IF startswith(b, <<SEP>>) THEN b
    ELSE IF a = <<>> \/ endswith(a, <<SEP>>) THEN a \o b
    ELSE a \o <<SEP>> \o b

\* os.path.join(a, b, c)
join3(a, b, c) == join2(join2(a, b), c)

\* os.path.split(p) == <<head, tail>>
pathsplit(p) ==
    LET i == rfind1(p, SEP)
        head == Upto(p, i)
        tail == From(p, i)
    IN  IF head # <<>> /\ ~AllChar(head, SEP)
        THEN <<rstrip(head, SEP), tail>>
        ELSE <<head, tail>>

\* os.path.dirname(p)
dirname(p) == pathsplit(p)[1]


(***************************************************************************)
(* notebook.utils.to_api_path, imported on line 7 and called on line 32.   *)
(***************************************************************************)
NonEmpty(part) == part # <<>>

\* the name alone, the directories dropped
to_api_path_basename(os_path, root) ==
    LET parts == SelectSeq(split(os_path, SEP), NonEmpty)
    IN  IF parts = <<>> THEN <<>> ELSE parts[Len(parts)]

to_api_path(os_path, root) ==
    LET stripped == IF startswith(os_path, root) THEN From(os_path, Len(root))
                    ELSE os_path
        parts == SelectSeq(split(strip(stripped, SEP), SEP), NonEmpty)
    IN  joinstr(SEP, parts)

(***************************************************************************)
(* The file system: os.makedirs and io.open(..., 'w').write.               *)
(***************************************************************************)
NoError == "none"

\* os.mkdir(name), as os.makedirs calls it and handles its failure: head is the
\* directory name is to be made in
\* [err |-> the exception raised or NoError, dirs |-> the directories afterwards]
mkdir(name, head, exist_ok, d, f) ==
    IF name \in d \/ name \in DOMAIN f
    THEN IF exist_ok /\ name \in d
         THEN [err |-> NoError, dirs |-> d]
         ELSE [err |-> "FileExistsError", dirs |-> d]
    ELSE IF head \in DOMAIN f THEN [err |-> "NotADirectoryError", dirs |-> d]
    ELSE IF head # <<>> /\ head \notin d THEN [err |-> "FileNotFoundError", dirs |-> d]
    ELSE [err |-> NoError, dirs |-> d \cup {name}]

\* os.makedirs after its recursive call for head returned sub
makedirs_leaf(name, head, exist_ok, sub, f) ==
    IF sub.err \notin {NoError, "FileExistsError"} THEN sub
    ELSE mkdir(name, head, exist_ok, sub.dirs, f)

\* os.makedirs(name, exist_ok) on the directories d and files f, name split
\* into head and tail
RECURSIVE makedirs_split(_, _, _, _, _, _)
makedirs_split(name, head, tail, exist_ok, d, f) ==
    makedirs_leaf(name, head, exist_ok,
                  IF head # <<>> /\ tail # <<>> /\ head \notin d /\ head \notin DOMAIN f
                  THEN makedirs_split(head, pathsplit(head)[1], pathsplit(head)[2],
                                      exist_ok, d, f)
                  ELSE [err |-> NoError, dirs |-> d],
                  f)

\* os.makedirs(name, exist_ok): name has no trailing separator here
makedirs(name, exist_ok, d, f) ==
    makedirs_split(name, pathsplit(name)[1], pathsplit(name)[2], exist_ok, d, f)

\* the text as a text-mode stream opened with the given newline argument writes
\* it: every "\n" becomes newline
Translate(text, newline) ==
    [i \in 1..Len(text) |-> IF text[i] = "\n" THEN newline ELSE text[i]]

\* the mode and newline arguments of io.open on line 37
OpenModeAppend == "a"
OpenMode == "w"

Newline == "\n"

\* the content of the file at path before the open, empty when there is none
OldContent(f, path) == IF path \in DOMAIN f THEN f[path] ELSE <<>>

\* f.write(text) on the file opened at path with content start; cut is the
\* number of tokens the device accepts: the write fails when the text is longer
write_text(path, start, text, f, cut) ==
    IF cut < Len(text)
    THEN [err |-> "OSError", files |-> (path :> (start \o Upto(text, cut))) @@ f]
    ELSE [err |-> NoError, files |-> (path :> (start \o text)) @@ f]

\* io.open(path, OpenMode, newline=Newline) in the directory parent, and the write
open_in(path, parent, script, d, f, denied, cut) ==
    IF path \in d THEN [err |-> "IsADirectoryError", files |-> f]
    ELSE IF parent \in DOMAIN f THEN [err |-> "NotADirectoryError", files |-> f]
    ELSE IF parent \notin d THEN [err |-> "FileNotFoundError", files |-> f]
    ELSE IF denied THEN [err |-> "PermissionError", files |-> f]
    ELSE write_text(path, IF OpenMode = "w" THEN <<>> ELSE OldContent(f, path),
                    Translate(script, Newline), f, cut)

\* with io.open(path, OpenMode, newline=Newline) as f: f.write(script)
\* [err |-> the exception raised or NoError, files |-> the files afterwards]
open_write(path, script, d, f, denied, cut) ==
    open_in(path, dirname(path), script, d, f, denied, cut)

(***************************************************************************)
(* export_script (lines 25-38).  st is the file system and the log the     *)
(* call starts with, as a record [dirs, files, log, outcome, target]; the  *)
(* result is the same record after the call: outcome is NoError or the     *)
(* exception that propagated, target the path io.open was called on.       *)
(* env is what the collaborators do in this call:                          *)
(*   env.fault     "conversion": exporter.from_filename raises;            *)
(*                 "makedirs", "open": the operating system refuses        *)
(*                 the call; "write": the device accepts only env.cut      *)
(*                 tokens; NoError: nothing fails by itself                *)
(*   env.script, env.resources   what exporter.from_filename returns       *)
(***************************************************************************)
NoPath == <<>>

\* resources.get(key, default)
Get(resources, key, default) ==
    IF key \in DOMAIN resources THEN resources[key] ELSE default

\* the default of the lookup on line 31
DefaultExtensionPy == PY
DefaultExtension == TXT

\* the directory name on line 34
NbExports == NBEXPORTS

\* the exist_ok argument on line 35
ExistOkFalse == FALSE
ExistOk == TRUE

\* lines 29 and 31: base + resources.get('output_extension', '.txt')
script_fname_keep_ext(os_path, resources) ==
    os_path \o Get(resources, "output_extension", DefaultExtension)

script_fname(os_path, resources) ==
    splitext(os_path)[1] \o Get(resources, "output_extension", DefaultExtension)

\* lines 32 and 34: the path of the export file
script_fullpath_in_root(fname, root, dirp) ==
    join3(root, NbExports, to_api_path(fname, root))

script_fullpath(fname, root, dirp) ==
    join3(dirp, NbExports, to_api_path(fname, root))

\* lines 37-38, w being what the open and the write did
written_script(st, path, w) ==
    [st EXCEPT !.files = w.files, !.outcome = w.err, !.target = path]

write_script(st, path, script, env) ==
    written_script(st, path,
                   open_write(path, script, st.dirs, st.files, env.fault = "open",
                              IF env.fault = "write" THEN env.cut ELSE Len(script)))

\* the log line of line 36
log_info(st, path) == [st EXCEPT !.log = Append(@, path)]

\* the log line only once the write has completed
log_if_written(r, path) == IF r.outcome = NoError THEN log_info(r, path) ELSE r

\* lines 36-38: the log line, then the write
write_then_log(st, path, script, env) ==
    log_if_written(write_script(st, path, script, env), path)

log_and_write(st, path, script, env) ==
    write_script(log_info(st, path), path, script, env)

\* lines 35-38, md being what os.makedirs did
after_makedirs(st, path, md, script, env) ==
    IF env.fault = "makedirs" THEN [st EXCEPT !.outcome = "PermissionError"]
    ELSE IF md.err # NoError THEN [st EXCEPT !.dirs = md.dirs, !.outcome = md.err]
    ELSE log_and_write([st EXCEPT !.dirs = md.dirs], path, script, env)

\* lines 35-38, path being script_fullpath
export_to(st, path, script, env) ==
    after_makedirs(st, path, makedirs(dirname(path), ExistOk, st.dirs, st.files),
                   script, env)

\* lines 31-38: what follows the conversion
after_conversion(st, os_path, root, dirp, script, resources, env) ==
    export_to(st, script_fullpath(script_fname(os_path, resources), root, dirp),
              script, env)

\* lines 29-38
export_script_ignore_failure(st, os_path, root, dirp, env) ==
    after_conversion(st, os_path, root, dirp,
                     IF env.fault = "conversion" THEN <<>> ELSE env.script,
                     env.resources, env)

export_script(st, os_path, root, dirp, env) ==
    IF env.fault = "conversion" THEN [st EXCEPT !.outcome = "ConversionError"]
    ELSE after_conversion(st, os_path, root, dirp, env.script, env.resources, env)

(***************************************************************************)
(* script_post_save (lines 11-23).                                         *)
(***************************************************************************)
None == 0

\* line 12
is_notebook_or_file(model) == model.type # "directory"

is_notebook(model) == model.type = "notebook"

\* line 19
always_construct(exporter) == TRUE

needs_construction(exporter) == exporter = None

\* the record of one call kept in last
Call(model, rel, os_path, env, outcome, target, prior) ==
    [type |-> model.type, rel |-> rel, os_path |-> os_path, env |-> env,
     outcome |-> outcome, target |-> target, prior |-> prior]

\* the state after export_script returned r (or raised r.outcome)
exported(model, rel, os_path, env, r) ==
    /\ dirs' = r.dirs
    /\ files' = r.files
    /\ log' = r.log
    /\ written' = IF r.outcome = NoError THEN written + 1 ELSE written
    /\ opened' = IF r.target # NoPath THEN opened + 1 ELSE opened
    /\ exports' = IF r.outcome = NoError
                  THEN (rel :> [path |-> r.target, script |-> env.script]) @@ exports
                  ELSE exports
    /\ last' = Call(model, rel, os_path, env, r.outcome, r.target,
                    OldContent(files, r.target))

\* lines 19-21
get_exporter(make) ==
    /\ constructed' = IF make THEN constructed + 1 ELSE constructed
    /\ _script_exporter' = IF make THEN constructed + 1 ELSE _script_exporter

script_post_save(model, rel, os_path, env) ==
    /\ calls < MaxSaves
    /\ calls' = calls + 1
    /\ UNCHANGED <<dir_path, root_dir>>
    /\ IF ~is_notebook(model)
       THEN /\ UNCHANGED <<_script_exporter, constructed, dirs, files, log,
                           written, opened, exports>>
            /\ last' = Call(model, rel, os_path, env, "skipped", NoPath, <<>>)
       ELSE /\ get_exporter(needs_construction(_script_exporter))
            /\ exported(model, rel, os_path, env,
                        export_script([dirs |-> dirs, files |-> files, log |-> log,
                                       outcome |-> NoError, target |-> NoPath],
                                      os_path, root_dir, dir_path, env))

(***************************************************************************)
(* The inputs: where the configuration file and the storage root are, the  *)
(* items saved, and what the exporter and the operating system do.         *)
(***************************************************************************)
ConfigDirs == {PROJ, CFG}
RootDirs == {PROJ}

RelPaths == {DEMO, NOTEBOOK_AB, DEMO_PY, N_IN_DEMO_PY, HIDDEN}

\* the host's to_os_path: the saved item's path under the storage root
OsPath(root, rel) == join2(root, rel)

NoResources == [k \in {} |-> <<>>]

\* what the collaborators do in one call: the exporter's result, and the fault
Env(fault, script, hasExt, ext, cut) ==
    [fault |-> fault, script |-> script, hasExt |-> hasExt,
     resources |-> IF hasExt THEN [output_extension |-> ext] ELSE NoResources,
     cut |-> cut]

\* a call that does not reach the exporter meets no collaborator
NoEnv == Env(NoError, <<>>, FALSE, <<>>, 0)

Envs ==
    {Env(NoError, PRINT1, TRUE, PY, 0),
     Env(NoError, TWO_LINES, TRUE, PY, 0),
     Env(NoError, PRINT1, TRUE, <<>>, 0),
     Env(NoError, PRINT1, FALSE, <<>>, 0),
     Env("conversion", <<>>, FALSE, <<>>, 0),
     Env("makedirs", PRINT1, TRUE, PY, 0),
     Env("open", PRINT1, TRUE, PY, 0),
     Env("write", PRINT1, TRUE, PY, 1)}

\* the saves that are not of a notebook
OtherSaves == {<<"file", DEMO>>, <<"directory", A_DIR>>}

Init ==
    /\ dir_path \in ConfigDirs
    /\ root_dir \in RootDirs
    /\ _script_exporter = None
    /\ constructed = 0
    /\ dirs = {<<SEP>>, PROJ, CFG}
    /\ files = [p \in {} |-> <<>>]
    /\ log = <<>>
    /\ written = 0
    /\ opened = 0
    /\ exports = [p \in {} |-> <<>>]
    /\ calls = 0
    /\ last = Call([type |-> "none"], NoPath, NoPath, NoEnv, "none", NoPath, <<>>)

Save ==
    \/ \E rel \in RelPaths, env \in Envs :
           script_post_save([type |-> "notebook"], rel, OsPath(root_dir, rel), env)
    \/ \E o \in OtherSaves :
           script_post_save([type |-> o[1]], o[2], OsPath(root_dir, o[2]), NoEnv)

Next == Save

Spec == Init /\ [][Next]_vars

(***************************************************************************)
(* The paths the claims name, character by character.                      *)
(***************************************************************************)
NBEXPORTS_AB_NOTEBOOK_PY == <<"/", ".", "n", "b", "e", "x", "p", "o", "r", "t", "s", "/", "a", "/", "b", "/", "N", "o", "t", "e", "b", "o", "o", "k", ".", "p", "y">>
NBEXPORTS_DEMO_PY == <<"/", ".", "n", "b", "e", "x", "p", "o", "r", "t", "s", "/", "d", "e", "m", "o", ".", "p", "y">>
NBEXPORTS_DEMO_TXT == <<"/", ".", "n", "b", "e", "x", "p", "o", "r", "t", "s", "/", "d", "e", "m", "o", ".", "t", "x", "t">>
PROJ_NBEXPORTS_DEMO_PY == <<"/", "p", "r", "o", "j", "/", ".", "n", "b", "e", "x", "p", "o", "r", "t", "s", "/", "d", "e", "m", "o", ".", "p", "y">>
CFG_NBEXPORTS_DEMO_PY == <<"/", "c", "f", "g", "/", ".", "n", "b", "e", "x", "p", "o", "r", "t", "s", "/", "d", "e", "m", "o", ".", "p", "y">>

(***************************************************************************)
(* What the specification says of a save, stated on the notebook's path    *)
(* relative to the storage root and not through the code's own functions.  *)
(***************************************************************************)
\* the export root: the .nbexports directory beside the configuration file
ExportRoot == dir_path \o <<"/">> \o NBEXPORTS

\* the relative path with the notebook's extension removed: the extension is
\* the part of the name from its last dot on, when the name has a character
\* other than a dot before that dot (the os.path reading of "extension", under
\* which the name .ipynb has none)
Stem(rel) ==
    LET ends == {i \in 1..Len(rel) :
                    /\ rel[i] = "."
                    /\ \A j \in (i + 1)..Len(rel) : rel[j] \notin {".", "/"}
                    /\ \E j \in 1..(i - 1) :
                           /\ rel[j] # "."
                           /\ \A k \in j..(i - 1) : rel[k] # "/"}
    IN  IF ends = {} THEN rel
        ELSE SubSeq(rel, 1, (CHOOSE i \in ends : TRUE) - 1)

\* <export-root>/<relative path without the extension><ext>
ExportPath(rel, ext) == ExportRoot \o <<"/">> \o Stem(rel) \o ext

\* the directories above a path
Ancestors(path) ==
    {<<"/">>} \cup {SubSeq(path, 1, i - 1) : i \in {k \in 2..Len(path) : path[k] = "/"}}

\* the extension a save's export takes: the exporter's, or .txt without one
ExtOf(env) == IF env.hasExt THEN env.resources.output_extension ELSE TXT

\* the most recent call was a save of a notebook
NotebookSave(c) == c.type = "notebook"

\* the most recent call was a notebook save whose write completed
Exported(c) == NotebookSave(c) /\ c.outcome = NoError

(***************************************************************************)
(* C1.  A save whose model type is not "notebook" has no effect: the       *)
(* cached exporter is unchanged and none is constructed, no directory is   *)
(* created, no log line is emitted and no file is written.                 *)
(***************************************************************************)
C1_NonNotebookNoEffect ==
    [][last'.type \in {"file", "directory"}
          => /\ UNCHANGED <<_script_exporter, constructed, dirs, files, log>>
             /\ last'.outcome = "skipped"
             /\ last'.target = NoPath]_vars

\* a directory or file is saved after a notebook was exported
C1_Witness ==
    /\ last.type \in {"file", "directory"}
    /\ written = 1
    /\ _script_exporter # None

(***************************************************************************)
(* C2.  Every successful notebook save writes the file at                  *)
(* <export-root>/<relative path without the notebook's extension><the      *)
(* exporter's extension>; a/b/Notebook.ipynb with .py is written at        *)
(* <export-root>/a/b/Notebook.py.                                          *)
(***************************************************************************)
C2_ExportPath ==
    (Exported(last) /\ last.env.hasExt)
        => /\ last.target = ExportPath(last.rel, last.env.resources.output_extension)
           /\ last.target \in DOMAIN files
           /\ (last.rel = NOTEBOOK_AB /\ last.env.resources.output_extension = PY)
                  => last.target = dir_path \o NBEXPORTS_AB_NOTEBOOK_PY

C2_Witness ==
    /\ Exported(last)
    /\ last.rel = NOTEBOOK_AB
    /\ last.env.hasExt
    /\ last.env.resources.output_extension = PY
    /\ (dir_path \o NBEXPORTS_AB_NOTEBOOK_PY) \in DOMAIN files

(***************************************************************************)
(* C3.  The exporter is constructed at most once: the first notebook save  *)
(* constructs it and every later notebook save reuses that instance.       *)
(***************************************************************************)
C3_ConstructedOnce ==
    /\ constructed <= 1
    /\ (_script_exporter = None) <=> (constructed = 0)
    /\ _script_exporter # None => _script_exporter = 1
    /\ NotebookSave(last) => constructed = 1

\* two notebook saves have happened
C3_Witness ==
    /\ NotebookSave(last)
    /\ opened = 2
    /\ constructed = 1

(***************************************************************************)
(* C4.  A completed save leaves exactly the newly rendered script in the   *)
(* export file, whatever the file held before; saving the same content     *)
(* again leaves the file as it was.                                        *)
(***************************************************************************)
C4_Overwrite ==
    Exported(last)
        => /\ files[last.target] = last.env.script
           /\ last.prior = last.env.script => files[last.target] = last.prior

\* a longer export is replaced by a shorter one
C4_Witness ==
    /\ Exported(last)
    /\ last.prior = TWO_LINES
    /\ last.env.script = PRINT1
    /\ files[last.target] = PRINT1

(***************************************************************************)
(* C5.  When the write is attempted every directory above the export path  *)
(* exists; and when those directories exist already, creating them raises  *)
(* nothing and the save goes on to the write.                              *)
(***************************************************************************)
C5_DirsBeforeWrite ==
    [][/\ last'.target # NoPath
           => /\ Ancestors(last'.target) \subseteq dirs'
              /\ last'.outcome # "FileNotFoundError"
       /\ (/\ NotebookSave(last')
           /\ last'.env.fault \notin {"conversion", "makedirs"}
           /\ Ancestors(ExportPath(last'.rel, ExtOf(last'.env))) \subseteq dirs)
           => /\ last'.target # NoPath
              /\ last'.outcome # "FileExistsError"
              /\ dirs' = dirs]_vars

\* a notebook two levels down is exported twice: the second save finds the
\* directories
C5_Witness ==
    /\ Exported(last)
    /\ last.rel = NOTEBOOK_AB
    /\ written = 2
    /\ Len(log) = 2
    /\ log[1] = log[2]
    /\ Ancestors(last.target) \subseteq dirs

(***************************************************************************)
(* C6.  When the conversion fails the failure leaves the hook and nothing  *)
(* else happens: no directory is created, no log line is emitted, no file  *)
(* is written or truncated.                                                *)
(***************************************************************************)
C6_ConversionFailure ==
    [][(NotebookSave(last') /\ last'.env.fault = "conversion")
          => /\ last'.outcome = "ConversionError"
             /\ last'.target = NoPath
             /\ UNCHANGED <<dirs, files, log, written>>]_vars

\* the conversion fails for a notebook that has an export
C6_Witness ==
    /\ last.outcome = "ConversionError"
    /\ last.rel \in DOMAIN exports
    /\ exports[last.rel].path \in DOMAIN files

(***************************************************************************)
(* C7.  As claimed: the number of log lines equals the number of exports   *)
(* whose write completed.                                                  *)
(***************************************************************************)
C7_LogEqualsWritten == Len(log) = written

(***************************************************************************)
(* C7, amended.  The log line is emitted before the write is attempted:    *)
(* the number of log lines equals the number of notebook saves that        *)
(* reached the write (conversion and directory creation succeeded), each   *)
(* line names the path then opened, and the completed writes are at most   *)
(* that many.                                                              *)
(***************************************************************************)
C7_LogPerAttempt ==
    /\ Len(log) = opened
    /\ written <= Len(log)
    /\ last.target # NoPath => (log # <<>> /\ log[Len(log)] = last.target)
    /\ (NotebookSave(last) /\ last.target = NoPath) => Len(log) < calls

\* a save whose write failed is logged all the same
C7_Witness ==
    /\ last.env.fault \in {"open", "write"}
    /\ last.outcome # NoError
    /\ Len(log) = 2
    /\ written = 1

(***************************************************************************)
(* C8.  As claimed: saving demo.ipynb under the storage root /proj, with   *)
(* the exporter rendering print(1)\n and .py, leaves                       *)
(* /proj/.nbexports/demo.py, under the storage root, holding print(1)\n.   *)
(***************************************************************************)
C8_UnderStorageRoot ==
    (Exported(last) /\ last.rel = DEMO /\ last.env.script = PRINT1
        /\ last.env.hasExt /\ last.env.resources.output_extension = PY)
        => /\ (root_dir \o NBEXPORTS_DEMO_PY) \in DOMAIN files
           /\ files[root_dir \o NBEXPORTS_DEMO_PY] = PRINT1

(***************************************************************************)
(* C8, amended.  The file is .nbexports/demo.py beside the configuration   *)
(* file, holding print(1)\n; it is /proj/.nbexports/demo.py when the       *)
(* configuration file is in the storage root.                              *)
(***************************************************************************)
C8_BesideConfig ==
    (Exported(last) /\ last.rel = DEMO /\ last.env.script = PRINT1
        /\ last.env.hasExt /\ last.env.resources.output_extension = PY)
        => /\ last.target = dir_path \o NBEXPORTS_DEMO_PY
           /\ (dir_path \o NBEXPORTS_DEMO_PY) \in DOMAIN files
           /\ files[dir_path \o NBEXPORTS_DEMO_PY] = PRINT1
           /\ dir_path = root_dir => files[PROJ_NBEXPORTS_DEMO_PY] = PRINT1

\* the scenario, with the configuration file outside the storage root
C8_Witness ==
    /\ Exported(last)
    /\ last.rel = DEMO
    /\ last.env.script = PRINT1
    /\ last.env.hasExt
    /\ last.env.resources.output_extension = PY
    /\ dir_path = CFG
    /\ root_dir = PROJ
    /\ files[CFG_NBEXPORTS_DEMO_PY] = PRINT1

(***************************************************************************)
(* C9.  Without an output_extension entry the lookup raises nothing and    *)
(* the export is written with .txt; with an entry, the entry is used, not  *)
(* the default.                                                            *)
(***************************************************************************)
C9_DefaultExtension ==
    /\ (NotebookSave(last) /\ ~last.env.hasExt /\ last.env.fault = NoError)
           => /\ last.outcome \in {NoError, "FileExistsError", "NotADirectoryError",
                                   "IsADirectoryError"}
              /\ last.outcome = NoError
                     => /\ last.target = ExportPath(last.rel, TXT)
                        /\ files[last.target] = last.env.script
    /\ (NotebookSave(last) /\ last.env.hasExt /\ last.target # NoPath)
           => last.target = ExportPath(last.rel, last.env.resources.output_extension)

\* a notebook is exported without the entry
C9_Witness ==
    /\ Exported(last)
    /\ ~last.env.hasExt
    /\ last.rel = DEMO
    /\ files[dir_path \o NBEXPORTS_DEMO_TXT] = last.env.script

(***************************************************************************)
(* C10.  As claimed: a save of notebook A leaves unchanged the export of   *)
(* every other notebook B whose relative path without extension differs    *)
(* from A's.                                                               *)
(***************************************************************************)
C10_OtherStemsUnchanged ==
    [][NotebookSave(last')
          => \A b \in DOMAIN exports :
                 Stem(b) # Stem(last'.rel)
                     => /\ exports[b].path \in DOMAIN files'
                        /\ files'[exports[b].path] = files[exports[b].path]]_vars

(***************************************************************************)
(* C10, amended.  A save of notebook A changes no file but the one at A's  *)
(* own export path: the export of another notebook B is left unchanged     *)
(* whenever its path differs from A's export path.                         *)
(***************************************************************************)
C10_OtherPathsUnchanged ==
    [][NotebookSave(last')
          => LET own == ExportPath(last'.rel, ExtOf(last'.env))
             IN  /\ \A p \in DOMAIN files' \cup DOMAIN files :
                        p # own => (p \in DOMAIN files /\ p \in DOMAIN files'
                                       /\ files'[p] = files[p])
                 /\ \A b \in DOMAIN exports :
                        exports[b].path # own
                            => files'[exports[b].path] = files[exports[b].path]]_vars

\* a notebook is exported while another notebook's export, at another path,
\* is on disk
C10_Witness ==
    /\ Exported(last)
    /\ last.rel = DEMO
    /\ NOTEBOOK_AB \in DOMAIN exports
    /\ exports[NOTEBOOK_AB].path # last.target
    /\ files[exports[NOTEBOOK_AB].path] = exports[NOTEBOOK_AB].script

=============================================================================
